---- MODULE Spec2Model ----
(***************************************************************************)
(* Model of explorerscript.ssb_converting.ssb_special_ops: the offset      *)
(* resolver process_op_for_jump with its label map, the marker slot of     *)
(* SsbLabelJump, and SsbLabel.needs_to_be_printed.                         *)
(*                                                                         *)
(* Python objects are modelled as records on a heap: `labels` is the       *)
(* sequence of all SsbLabel objects ever constructed, and a reference to   *)
(* a label is its index in that sequence, so object identity is equality   *)
(* of references.                                                          *)
(***************************************************************************)
EXTENDS Integers, Sequences, FiniteSets, TLC

VARIABLES
    known_labels,   \* Dict[int, SsbLabel]: raw offset -> label reference
    labels,         \* heap of SsbLabel objects, indexed by reference
    call,           \* arguments of the last process_op_for_jump call
    result,         \* what the last process_op_for_jump call returned or raised
    issued,         \* history: <<offset, label ref, label id>> of every JumpNode returned
    first_seen,     \* history: jump offsets of successful calls, in order of first encounter
    creator,        \* history: label ref -> routine_id of the call that constructed it
    foreign_reuse,  \* history: refs of labels reused by a call with another routine_id
    node,           \* an SsbLabelJump whose marker slot is operated on
    graph,          \* the igraph Graph handed to needs_to_be_printed: its vertices, in order
    trail,          \* history: the last calls on the marker slot of node, oldest first
    multi_if,       \* a MultiIfStart marker
    if_history,     \* history: the lists multi_if was built with and the add_if calls since
    handler,        \* an AssignmentAdventureLogCompileHandler
    supplied,       \* history: what the last integer-like producer given to add collected
    runs,           \* two decompilation runs: each its own known_labels and position in stream
    stream          \* the calls fed, in this order, to both runs

vars == <<known_labels, labels, call, result, issued, first_seen, creator, foreign_reuse,
          node, graph, trail, multi_if, if_history, handler, supplied, runs, stream>>

multi_if_vars == <<multi_if, if_history>>
handler_vars == <<handler, supplied>>
runs_vars == <<runs, stream>>

\* the state of the resolver run and its history
resolver_vars == <<known_labels, labels, issued, first_seen, creator, foreign_reuse>>

----------------------------------------------------------------------------
\* Bounds of the model

\* number of distinct raw jump offsets that occur as parameter values
MaxOffsets == 2
\* a jump-carrying operation has at most (jump index + 1 + MaxExtraParams) parameters
MaxExtraParams == 1

\* an SsbLabel carries at most this many markers
MaxLabelMarkers == 2
\* a graph has at most this many vertices
MaxVertices == 2
\* number_in_vs ranges over 0 .. MaxNumberInVs
MaxNumberInVs == 5

\* add_if is called at most this many times on a MultiIfStart
MaxIfs == 3

\* integer-like values run from 0 to this
MaxLogValue == 8

\* longest sequence of calls fed to two runs
MaxStream == 3

\* raw memory offsets used as parameter values: 50, 60, ...
Offsets == {50 + 10 * i : i \in 0 .. (MaxOffsets - 1)}
\* offsets of the operations themselves
OpOffsets == {10, 20}
\* routine ids under which operations are scanned
RoutineIds == {0, 1}

----------------------------------------------------------------------------
\* Opcode tables

OP_JUMP == "Jump"

OPS_BRANCH ==
    [name \in {"Branch", "BranchBit", "BranchPerformance"} |-> 2]
    @@ [name \in {"BranchDebug", "BranchEdit", "BranchExecuteSub", "BranchVariation"} |-> 1]
    @@ [name \in {"BranchScenarioNow", "BranchScenarioNowAfter", "BranchScenarioNowBefore",
                  "BranchScenarioAfter", "BranchScenarioBefore", "BranchSum",
                  "BranchValue", "BranchVariable"} |-> 3]

\* the literal table, then .update(OPS_BRANCH): entries of OPS_BRANCH win
OPS_WITH_JUMP_TO_MEM_OFFSET ==
    OPS_BRANCH
    @@ [name \in {"Case", "CaseMenu", "CaseMenu2"} |-> 1]
    @@ [name \in {"CaseScenario", "CaseValue", "CaseVariable"} |-> 2]
    @@ [name \in {OP_JUMP} |-> 0]

OP_RETURN == "Return"

\* opcode names of the operations fed to the resolver
OpNames == {OP_JUMP, "Case", "Branch", OP_RETURN}

----------------------------------------------------------------------------
\* Operations and their parameters

\* op.params is a list (a sequence of values) or a dict (name -> value, in
\* insertion order): items is the sequence of values, or of (key, value) entries
ListParams(vals) == [is_list |-> TRUE, items |-> vals]
DictParams(vals) ==
    [is_list |-> FALSE, items |-> [i \in 1 .. Len(vals) |-> [key |-> i, value |-> vals[i]]]]

\* op.params if isinstance(op.params, list) else list(op.params.values())
ParamList(params) ==
    IF params.is_list
    THEN params.items
    ELSE [i \in 1 .. Len(params.items) |-> params.items[i].value]

SsbOperation(offset, op_code, params) ==
    [offset |-> offset, op_code |-> op_code, params |-> params]

SeqsUpTo(S, n) == UNION {[1 .. k -> S] : k \in 0 .. n}

\* longest parameter sequence fed in for an opcode
MaxLenOf(name) ==
    IF name \in DOMAIN OPS_WITH_JUMP_TO_MEM_OFFSET
    THEN OPS_WITH_JUMP_TO_MEM_OFFSET[name] + 1 + MaxExtraParams
    ELSE 1 + MaxExtraParams

\* the forms op.params takes for an opcode: every short sequence of offsets,
\* as a list and as a dict
ParamForms(name) ==
    {ListParams(vals) : vals \in SeqsUpTo(Offsets, MaxLenOf(name))}
    \cup {DictParams(vals) : vals \in SeqsUpTo(Offsets, MaxLenOf(name))}

\* the operations fed to the resolver
InputOps ==
    UNION {{SsbOperation(off, name, p) : off \in OpOffsets, p \in ParamForms(name)} :
              name \in OpNames}

----------------------------------------------------------------------------
\* SsbLabel and SsbLabelJump objects

\* SsbLabel.__init__(id, routine_id)
SsbLabel(id, routine_id) ==
    [id |-> id,
     routine_id |-> routine_id,
     referenced_from_other_routine |-> FALSE,
     markers |-> <<>>]

\* SsbLabelJump.__init__(root, label): label is a reference into the heap,
\* or 0 for None
SsbLabelJump(root, label) ==
    [kind |-> "jump", root |-> root, label |-> label, markers |-> <<>>]

----------------------------------------------------------------------------
\* process_op_for_jump

Max(S) == CHOOSE x \in S : \A y \in S : y <= x

\* as ParamsTooShort, with the bound off by one
ParamsTooShortOffByOne(param_list, jump_param_idx) == Len(param_list) < jump_param_idx - 1

\* as ParamsTooShort, requiring an entry at the jump index
ParamsTooShortInclusive(param_list, jump_param_idx) == Len(param_list) <= jump_param_idx

\* len(param_list) < jump_param_idx
ParamsTooShort(param_list, jump_param_idx) == Len(param_list) < jump_param_idx

\* as IsKnown, looking among the values of the map instead of its keys
IsKnownAmongValues(old_offset, kl) == old_offset \in {kl[o] : o \in DOMAIN kl}

\* old_offset in known_labels
IsKnown(old_offset, kl) == old_offset \in DOMAIN kl

\* as NextLabelId, without the increment
NextLabelIdNoIncrement(kl, heap) ==
    IF Cardinality(DOMAIN kl) = 0
    THEN 0
    ELSE Max({heap[kl[o]].id : o \in DOMAIN kl})

\* as NextLabelId, counting the labels of every map
NextLabelIdGlobal(kl, heap) == Len(heap)

\* 0 for an empty map, else max(label.id for label in known_labels.values()) + 1
NextLabelId(kl, heap) ==
    IF Cardinality(DOMAIN kl) = 0
    THEN 0
    ELSE Max({heap[kl[o]].id : o \in DOMAIN kl}) + 1

\* as FlagAfterReuse, assigning the comparison instead of only setting the flag
FlagAssigned(label, routine_id) == routine_id # label.routine_id

\* as FlagAfterReuse, setting the flag on every reuse
FlagAlwaysSet(label, routine_id) == TRUE

\* the flag of a reused label: set when routine_id != label.routine_id, else kept
FlagAfterReuse(label, routine_id) ==
    IF routine_id # label.routine_id
    THEN TRUE
    ELSE label.referenced_from_other_routine

\* as DelAt, deleting the last element
DelLast(param_list, jump_param_idx) == SubSeq(param_list, 1, Len(param_list) - 1)

\* new_params = param_list.copy(); del new_params[jump_param_idx]   (0-based index)
DelAt(param_list, jump_param_idx) ==
    SubSeq(param_list, 1, jump_param_idx)
    \o SubSeq(param_list, jump_param_idx + 2, Len(param_list))

\* known_labels[old_offset] = label
SetItem(kl, key, value) ==
    [o \in DOMAIN kl \cup {key} |-> IF o = key THEN value ELSE kl[o]]

ValueError(op_code, jump_param_idx) ==
    [kind |-> "error", error |-> "ValueError", op_code |-> op_code, idx |-> jump_param_idx]

\* param_list[jump_param_idx] with jump_param_idx = len(param_list)
IndexError == [kind |-> "error", error |-> "IndexError"]

\* the history variables after a call that returned a JumpNode for `target`
RecordJump(target, routine_id) ==
    /\ issued' = issued \cup {<<target, result'.label, labels'[result'.label].id>>}
    /\ first_seen' = IF \E k \in 1 .. Len(first_seen) : first_seen[k] = target
                     THEN first_seen
                     ELSE Append(first_seen, target)
    /\ creator' = [r \in 1 .. Len(labels') |->
                      IF r \in DOMAIN creator THEN creator[r] ELSE routine_id]
    /\ foreign_reuse' = foreign_reuse
          \cup {h[2] : h \in {g \in issued : g[1] = target /\ creator[g[2]] # routine_id}}

\* as ListCopy, binding the same list object
ListAlias(param_list) == [shared |-> TRUE, items |-> param_list]

\* param_list.copy(): a new list object with the same items
ListCopy(param_list) == [shared |-> FALSE, items |-> param_list]

\* as PassThrough, returning a copy of op with its parameters as a list
PassThroughCopy(op) == SsbOperation(op.offset, op.op_code, ListParams(ParamList(op.params)))

\* return op
PassThrough(op) == op

\* process_op_for_jump(op, kl, routine_id) with the labels on heap: what it
\* returns or raises, the map and the heap after it, and op after it (changed
\* when the list deleted from is op.params itself)
Resolve(op, kl, heap, routine_id) ==
    IF op.op_code \in DOMAIN OPS_WITH_JUMP_TO_MEM_OFFSET
    THEN LET param_list == ParamList(op.params)
             jump_param_idx == OPS_WITH_JUMP_TO_MEM_OFFSET[op.op_code]
         IN  IF ParamsTooShort(param_list, jump_param_idx)
             THEN [result |-> ValueError(op.op_code, jump_param_idx),
                   known_labels |-> kl, labels |-> heap, op_after |-> op]
             ELSE IF jump_param_idx >= Len(param_list)
             THEN [result |-> IndexError,
                   known_labels |-> kl, labels |-> heap, op_after |-> op]
             ELSE LET old_offset == param_list[jump_param_idx + 1]
                      copied == ListCopy(param_list)
                      new_params == DelAt(copied.items, jump_param_idx)
                      root == SsbOperation(op.offset, op.op_code, ListParams(new_params))
                      op_after == IF copied.shared /\ op.params.is_list
                                  THEN SsbOperation(op.offset, op.op_code,
                                                    ListParams(new_params))
                                  ELSE op
                  IN  IF IsKnown(old_offset, kl)
                      THEN LET label == kl[old_offset]
                           IN  [result |-> SsbLabelJump(root, label),
                                known_labels |-> kl,
                                labels |-> [heap EXCEPT
                                    ![label].referenced_from_other_routine =
                                        FlagAfterReuse(heap[label], routine_id)],
                                op_after |-> op_after]
                      ELSE LET next_label_id == NextLabelId(kl, heap)
                               label == Len(heap) + 1
                           IN  [result |-> SsbLabelJump(root, label),
                                known_labels |-> SetItem(kl, old_offset, label),
                                labels |-> Append(heap, SsbLabel(next_label_id, routine_id)),
                                op_after |-> op_after]
    ELSE [result |-> [kind |-> "op", op |-> PassThrough(op)],
          known_labels |-> kl, labels |-> heap, op_after |-> op]

\* one call on the map known_labels
ProcessOpForJump(op, routine_id) ==
    LET r == Resolve(op, known_labels, labels, routine_id)
    IN  /\ call' = [kind |-> "call", op |-> op, routine_id |-> routine_id,
                    op_after |-> r.op_after]
        /\ result' = r.result
        /\ known_labels' = r.known_labels
        /\ labels' = r.labels
        /\ IF r.result.kind = "jump"
           THEN RecordJump(ParamList(op.params)[OPS_WITH_JUMP_TO_MEM_OFFSET[op.op_code] + 1],
                           routine_id)
           ELSE UNCHANGED <<issued, first_seen, creator, foreign_reuse>>
        /\ UNCHANGED <<node, graph, trail, multi_if_vars, handler_vars, runs_vars>>

\* the variables outside the resolver run, while they are not used
NoNode == node = [kind |-> "none"] /\ trail = <<>>
NoGraph == graph = <<>>
NoMultiIf == multi_if = [type |-> "none"] /\ if_history = [kind |-> "none"]
NoHandler == handler = [kind |-> "none"] /\ supplied = [kind |-> "none"]
NoRuns == runs = <<>> /\ stream = <<>>

\* no resolver run
NoResolver ==
    /\ known_labels = <<>>
    /\ issued = {}
    /\ first_seen = <<>>
    /\ creator = <<>>
    /\ foreign_reuse = {}

----------------------------------------------------------------------------
\* The resolver run: one known_labels map, initially empty, threaded through
\* every call

Init ==
    /\ known_labels = <<>>
    /\ labels = <<>>
    /\ call = [kind |-> "none"]
    /\ result = [kind |-> "none"]
    /\ issued = {}
    /\ first_seen = <<>>
    /\ creator = <<>>
    /\ foreign_reuse = {}
    /\ NoNode
    /\ NoGraph
    /\ NoMultiIf
    /\ NoHandler
    /\ NoRuns

\* the caller takes what the call returned or raised and moves on
NextOp ==
    /\ call.kind # "none"
    /\ call' = [kind |-> "none"]
    /\ result' = [kind |-> "none"]
    /\ UNCHANGED <<resolver_vars, node, graph, trail, multi_if_vars, handler_vars,
                   runs_vars>>

Next ==
    \/ /\ call.kind = "none"
       /\ \E op \in InputOps, routine_id \in RoutineIds : ProcessOpForJump(op, routine_id)
    \/ NextOp

Spec == Init /\ [][Next]_vars

----------------------------------------------------------------------------
\* Properties of the resolver

IsJumpCarrying(op) == op.op_code \in DOMAIN OPS_WITH_JUMP_TO_MEM_OFFSET
JumpIdx(op) == OPS_WITH_JUMP_TO_MEM_OFFSET[op.op_code]
Flag(r) == labels[r].referenced_from_other_routine

\* C1: any two JumpNodes returned for the same raw offset reference the same
\* Label object with the same id, whatever was called in between, and
\* known_labels[offset] is that Label after each call.
C1_SameLabelPerOffset ==
    /\ \A g, h \in issued : g[1] = h[1] => (g[2] = h[2] /\ g[3] = h[3])
    /\ \A g \in issued :
          /\ g[1] \in DOMAIN known_labels
          /\ known_labels[g[1]] = g[2]
          /\ labels[g[2]].id = g[3]

\* the first label is returned again after a second label was created
C1_Witness ==
    /\ result.kind = "jump"
    /\ Len(labels) = 2
    /\ result.label = 1
    /\ Cardinality(issued) = 2

\* C2: the ids in the map are exactly 0..n-1 for n entries, pairwise distinct,
\* and the k-th distinct offset first encountered carries id k-1.
C2_DenseIds ==
    LET n == Cardinality(DOMAIN known_labels)
    IN  /\ {labels[known_labels[o]].id : o \in DOMAIN known_labels} = 0 .. (n - 1)
        /\ \A o1, o2 \in DOMAIN known_labels :
              o1 # o2 => labels[known_labels[o1]].id # labels[known_labels[o2]].id
        /\ Len(first_seen) = n
        /\ \A k \in 1 .. Len(first_seen) :
              /\ first_seen[k] \in DOMAIN known_labels
              /\ labels[known_labels[first_seen[k]]].id = k - 1

\* two offsets were resolved, 60 before 50
C2_Witness ==
    /\ Cardinality(DOMAIN known_labels) >= 2
    /\ Len(first_seen) >= 2
    /\ first_seen[1] = 60
    /\ first_seen[2] = 50

\* C3: a jump-carrying operation with k parameters (k above the jump index)
\* yields a JumpNode whose root has k-1 parameters: the value at the jump index
\* is removed and is the key of the returned Label, the others keep their
\* order, and the root keeps offset and opcode.
C3_ArityReduction ==
    (call.kind = "call" /\ IsJumpCarrying(call.op)
        /\ Len(ParamList(call.op.params)) > JumpIdx(call.op))
    => LET p == ParamList(call.op.params)
           idx == JumpIdx(call.op)
           k == Len(p)
       IN  /\ result.kind = "jump"
           /\ result.root.params.is_list
           /\ Len(result.root.params.items) = k - 1
           /\ \A i \in 1 .. (k - 1) :
                 result.root.params.items[i] = IF i <= idx THEN p[i] ELSE p[i + 1]
           /\ p[idx + 1] \in DOMAIN known_labels
           /\ known_labels[p[idx + 1]] = result.label
           /\ result.root.offset = call.op.offset
           /\ result.root.op_code = call.op.op_code

\* a Branch with four parameters, the jump offset between different values
C3_Witness ==
    /\ call.kind = "call"
    /\ call.op.op_code = "Branch"
    /\ ParamList(call.op.params) = <<50, 60, 50, 60>>
    /\ result.kind = "jump"
    /\ result.root.params.items = <<50, 60, 60>>

\* C4: once referenced_from_other_routine is true for a Label it stays true
\* after every later call, whatever its offset, routine_id or outcome.
C4_FlagMonotonic ==
    [][\A r \in 1 .. Len(labels) : Flag(r) => (r <= Len(labels') /\ Flag(r)')]_vars

\* a flagged label was reused under its own routine_id
C4_Witness ==
    /\ result.kind = "jump"
    /\ Flag(result.label)
    /\ call.routine_id = labels[result.label].routine_id

\* a Branch whose jump parameter is 50
BranchTo50(c, offset, routine_id) ==
    /\ c.kind = "call"
    /\ c.op.op_code = "Branch"
    /\ c.op.offset = offset
    /\ c.routine_id = routine_id
    /\ Len(ParamList(c.op.params)) >= 3
    /\ ParamList(c.op.params)[3] = 50

\* C5: a Label's flag is true iff some call that reused it had a routine_id
\* other than the Label's, the Label's routine_id being that of the call that
\* created it; a Branch at 10 to offset 50 under routine 0 on an empty map
\* gives Label (id 0, routine 0, flag false), and a following Branch at 20 to
\* 50 under routine 1 gives the same Label with the flag true.
C5_FlagIffForeignReuse ==
    /\ [](\A r \in 1 .. Len(labels) :
             /\ Flag(r) <=> r \in foreign_reuse
             /\ labels[r].routine_id = creator[r])
    /\ [][(call.kind = "none" /\ DOMAIN known_labels = {} /\ BranchTo50(call', 10, 0))
            => /\ result'.kind = "jump"
               /\ known_labels' = [o \in {50} |-> result'.label]
               /\ labels'[result'.label].id = 0
               /\ labels'[result'.label].routine_id = 0
               /\ ~labels'[result'.label].referenced_from_other_routine]_vars
    /\ [][(/\ call.kind = "none"
           /\ DOMAIN known_labels = {50}
           /\ labels[known_labels[50]] = SsbLabel(0, 0)
           /\ BranchTo50(call', 20, 1))
            => /\ result'.kind = "jump"
               /\ result'.label = known_labels[50]
               /\ known_labels' = known_labels
               /\ labels'[result'.label].id = 0
               /\ labels'[result'.label].routine_id = 0
               /\ labels'[result'.label].referenced_from_other_routine]_vars

\* the scenario's end: the only label, made under routine 0, returned to a
\* Branch at 20 under routine 1
C5_Witness ==
    /\ BranchTo50(call, 20, 1)
    /\ result.kind = "jump"
    /\ Len(labels) = 1
    /\ labels[result.label].id = 0
    /\ labels[result.label].routine_id = 0
    /\ Flag(result.label)
    /\ foreign_reuse = {result.label}

\* the call's parameter sequence is shorter than the opcode's jump index
Malformed(c) ==
    /\ c.kind = "call"
    /\ IsJumpCarrying(c.op)
    /\ Len(ParamList(c.op.params)) < JumpIdx(c.op)

\* C10: a jump-carrying operation with fewer parameters than its jump index
\* fails with the ValueError naming opcode and index, returns no JumpNode and
\* leaves known_labels and every Label unchanged.
C10_MalformedInput ==
    /\ [](Malformed(call)
            => result = [kind |-> "error", error |-> "ValueError",
                         op_code |-> call.op.op_code, idx |-> JumpIdx(call.op)])
    /\ [][Malformed(call') => (known_labels' = known_labels /\ labels' = labels)]_vars

\* a Branch with one parameter, rejected while the map holds a flagged label
C10_Witness ==
    /\ Malformed(call)
    /\ call.op.op_code = "Branch"
    /\ Len(ParamList(call.op.params)) = 1
    /\ result.kind = "error"
    /\ \E o \in DOMAIN known_labels : Flag(known_labels[o])

\* C11: an operation whose opcode name is not in the jump-index table is
\* returned as it is, unchanged, and known_labels and every Label stay as they
\* were, whatever the routine_id and the parameter values.
C11_PassThrough ==
    /\ []((call.kind = "call" /\ ~IsJumpCarrying(call.op))
            => (result = [kind |-> "op", op |-> call.op] /\ call.op_after = call.op))
    /\ [][(call'.kind = "call" /\ ~IsJumpCarrying(call'.op))
            => (known_labels' = known_labels /\ labels' = labels)]_vars

\* a Return whose dict parameters hold a known offset, passed under another
\* routine than that of the offset's unflagged label
C11_Witness ==
    /\ call.kind = "call"
    /\ call.op.op_code = OP_RETURN
    /\ ~call.op.params.is_list
    /\ ParamList(call.op.params) = <<50>>
    /\ 50 \in DOMAIN known_labels
    /\ labels[known_labels[50]].routine_id # call.routine_id
    /\ ~Flag(known_labels[50])
    /\ result.kind = "op"

\* C14: a call that returns a JumpNode leaves the input operation and its
\* parameters as they were, removes or rebinds no entry of known_labels, adds
\* at most one (bound to the returned Label), and changes no existing Label
\* except the flag of the one it returns.
C14_Frame ==
    [][(call'.kind = "call" /\ result'.kind = "jump")
        => /\ call'.op_after = call'.op
           /\ DOMAIN known_labels \subseteq DOMAIN known_labels'
           /\ \A o \in DOMAIN known_labels : known_labels'[o] = known_labels[o]
           /\ Cardinality(DOMAIN known_labels' \ DOMAIN known_labels) <= 1
           /\ \A o \in DOMAIN known_labels' \ DOMAIN known_labels :
                 known_labels'[o] = result'.label
           /\ Len(labels') >= Len(labels)
           /\ \A r \in 1 .. Len(labels) :
                 /\ labels'[r].id = labels[r].id
                 /\ labels'[r].routine_id = labels[r].routine_id
                 /\ labels'[r].markers = labels[r].markers
                 /\ r # result'.label => labels'[r] = labels[r]]_vars

\* a Branch with list parameters reused the first of two labels and set its flag
C14_Witness ==
    /\ call.kind = "call"
    /\ call.op.op_code = "Branch"
    /\ call.op.params.is_list
    /\ result.kind = "jump"
    /\ Len(labels) = 2
    /\ result.label = 1
    /\ Flag(1)
    /\ ~Flag(2)

\* the call's parameter sequence has exactly as many entries as the jump index
Boundary(c) ==
    /\ c.kind = "call"
    /\ IsJumpCarrying(c.op)
    /\ Len(ParamList(c.op.params)) = JumpIdx(c.op)

\* C15: with exactly jump-index many parameters the length check passes: the
\* call does not fail with the ValueError naming opcode and index but with the
\* IndexError of the read, returns no JumpNode, creates no Label and leaves
\* known_labels unchanged.
C15_BoundaryLength ==
    /\ [](Boundary(call)
            => (result.kind = "error" /\ result.error # "ValueError" /\ result = IndexError))
    /\ [][Boundary(call') => (known_labels' = known_labels /\ labels' = labels)]_vars

\* a Jump without parameters, while the map holds a label
C15_Witness ==
    /\ Boundary(call)
    /\ call.op.op_code = OP_JUMP
    /\ ParamList(call.op.params) = <<>>
    /\ result = IndexError
    /\ DOMAIN known_labels # {}

----------------------------------------------------------------------------
\* Markers

\* if_id, switch_id and loop_id values
MarkerIds == {7, 8}

\* the marker classes and their base classes
Bases(cls) ==
    CASE cls = "MultiIfStart" -> {"MultiIfStart", "IfStart", "LabelJumpMarker"}
      [] cls = "MultiSwitchStart" -> {"MultiSwitchStart", "SwitchStart", "LabelJumpMarker"}
      [] cls \in {"IfStart", "SwitchStart", "ForeverContinue", "ForeverBreak"}
            -> {cls, "LabelJumpMarker"}
      [] OTHER -> {cls, "LabelMarker"}

\* isinstance(m, cls)
IsInstance(m, cls) == cls \in Bases(m.type)

IfStart(if_id) == [type |-> "IfStart", if_id |-> if_id, is_not |-> FALSE]
MultiIfStart(if_id, start_ifs, ifs_are_not) ==
    [type |-> "MultiIfStart", if_id |-> if_id, is_not |-> FALSE,
     original_ssb_ifs_ops |-> start_ifs, original_ssb_ifs_is_not |-> ifs_are_not]
SwitchStart(switch_id) == [type |-> "SwitchStart", switch_id |-> switch_id]
MultiSwitchStart(if_id, start_switches) ==
    [type |-> "MultiSwitchStart", switch_id |-> if_id,
     original_ssb_switch_ops |-> start_switches]
ForeverContinue(loop_id) == [type |-> "ForeverContinue", loop_id |-> loop_id]
ForeverBreak(loop_id) == [type |-> "ForeverBreak", loop_id |-> loop_id]
IfEnd(if_id) == [type |-> "IfEnd", if_id |-> if_id]
SwitchEnd(switch_id) == [type |-> "SwitchEnd", switch_id |-> switch_id]
SwitchFalltrough == [type |-> "SwitchFalltrough"]
ForeverStart(loop_id) == [type |-> "ForeverStart", loop_id |-> loop_id]
ForeverEnd(loop_id) == [type |-> "ForeverEnd", loop_id |-> loop_id]

\* the LabelJumpMarker objects handed to SsbLabelJump.add_marker
JumpMarkers ==
    {IfStart(i) : i \in MarkerIds}
    \cup {MultiIfStart(i, <<>>, <<>>) : i \in MarkerIds}
    \cup {SwitchStart(i) : i \in MarkerIds}
    \cup {MultiSwitchStart(i, <<>>) : i \in MarkerIds}
    \cup {ForeverContinue(i) : i \in MarkerIds}
    \cup {ForeverBreak(i) : i \in MarkerIds}

\* the LabelMarker objects handed to SsbLabel.add_marker
LabelMarkers ==
    {SwitchEnd(i) : i \in MarkerIds}
    \cup {IfEnd(7), SwitchFalltrough, ForeverStart(7), ForeverEnd(7)}

----------------------------------------------------------------------------
\* SsbLabelJump: the marker slot

Returned(value) == [kind |-> "return", value |-> value]
None == [kind |-> "None"]

\* as SlotTaken, with the bound off by one
SlotTakenOffByOne(markers) == Len(markers) > 1

\* len(self.markers) > 0
SlotTaken(markers) == Len(markers) > 0

\* the history of calls on the slot after call c: the last three, oldest first
Trail(c) ==
    LET all == Append(trail, c)
    IN  IF Len(all) > 3 THEN Tail(all) ELSE all

\* the variables no operation on the marker slot touches
outside_marker_vars == <<resolver_vars, graph, multi_if_vars, handler_vars, runs_vars>>

\* SsbLabelJump.add_marker(m)
AddMarker(m) ==
    /\ call' = [kind |-> "add_marker", m |-> m]
    /\ IF SlotTaken(node.markers)
       THEN /\ result' = [kind |-> "error", error |-> "ValueError"]
            /\ node' = node
       ELSE /\ node' = [node EXCEPT !.markers = Append(@, m)]
            /\ result' = Returned(None)
    /\ trail' = Trail(call')
    /\ UNCHANGED outside_marker_vars

\* as DelFirst, deleting what follows the first marker
DelAfterFirst(markers) == SubSeq(markers, 1, 1)

\* del self.markers[0]
DelFirst(markers) == Tail(markers)

\* SsbLabelJump.remove_marker()
RemoveMarker ==
    /\ call' = [kind |-> "remove_marker"]
    /\ IF Len(node.markers) > 0
       THEN node' = [node EXCEPT !.markers = DelFirst(@)]
       ELSE node' = node
    /\ result' = Returned(None)
    /\ trail' = Trail(call')
    /\ UNCHANGED outside_marker_vars

\* SsbLabelJump.get_marker()
GetMarker ==
    /\ call' = [kind |-> "get_marker"]
    /\ result' = IF Len(node.markers) > 0 THEN Returned(node.markers[1]) ELSE Returned(None)
    /\ trail' = Trail(call')
    /\ UNCHANGED <<node, outside_marker_vars>>

\* the roots of the jump nodes whose slot is operated on
NodeRoots == {SsbOperation(10, "Branch", ListParams(<<>>))}

\* a freshly constructed SsbLabelJump, with a label (reference 1) or without
\* (label None, written as reference 0)
InitMarkers ==
    /\ known_labels = <<>>
    /\ labels = <<SsbLabel(0, 0)>>
    /\ call = [kind |-> "none"]
    /\ result = [kind |-> "none"]
    /\ issued = {}
    /\ first_seen = <<>>
    /\ creator = <<>>
    /\ foreign_reuse = {}
    /\ \E root \in NodeRoots, label \in {0, 1} : node = SsbLabelJump(root, label)
    /\ trail = <<>>
    /\ NoGraph
    /\ NoMultiIf
    /\ NoHandler
    /\ NoRuns

NextMarkers ==
    \/ /\ call.kind = "none"
       /\ \E m \in JumpMarkers : AddMarker(m)
    \/ /\ call.kind = "none"
       /\ RemoveMarker
    \/ /\ call.kind = "none"
       /\ GetMarker
    \/ NextOp

SpecMarkers == InitMarkers /\ [][NextMarkers]_vars

\* C6: a JumpNode holds zero or one markers; add_marker on a node holding a
\* marker fails and leaves the held marker unchanged; add_marker on a node
\* holding none succeeds and the node then holds exactly that marker.
C6_MarkerSingleArity ==
    /\ [](node.kind = "jump" => Len(node.markers) <= 1)
    /\ [][(call.kind = "none" /\ call'.kind = "add_marker")
            => IF Len(node.markers) >= 1
               THEN result'.kind = "error" /\ node'.markers = node.markers
               ELSE result' = Returned(None) /\ node'.markers = <<call'.m>>]_vars

\* add_marker was refused on a node holding another marker
C6_Witness ==
    /\ call.kind = "add_marker"
    /\ result.kind = "error"
    /\ Len(node.markers) = 1
    /\ node.markers[1] # call.m

\* C16: remove_marker empties the slot and is no error on an empty slot;
\* get_marker returns the held marker, or None, and leaves the slot alone;
\* after remove_marker a following add_marker succeeds and a get_marker after
\* that returns the marker just added.
C16_RemoveThenAddThenGet ==
    /\ [][(call.kind = "none" /\ call'.kind = "remove_marker")
            => /\ result' = Returned(None)
               /\ node'.markers = <<>>
               /\ node.markers = <<>> => node' = node]_vars
    /\ [][(call.kind = "none" /\ call'.kind = "get_marker")
            => /\ node' = node
               /\ result' = IF node.markers = <<>>
                            THEN Returned(None)
                            ELSE Returned(node.markers[1])]_vars
    /\ []((/\ call.kind = "add_marker"
           /\ Len(trail) >= 2
           /\ trail[Len(trail) - 1].kind = "remove_marker")
            => (result = Returned(None) /\ node.markers = <<call.m>>))
    /\ []((/\ call.kind = "get_marker"
           /\ Len(trail) = 3
           /\ trail[1].kind = "remove_marker"
           /\ trail[2].kind = "add_marker")
            => (result = Returned(trail[2].m) /\ node.markers = <<trail[2].m>>))

\* a held marker was removed, another one added and then read
C16_Witness ==
    /\ call.kind = "get_marker"
    /\ Len(trail) = 3
    /\ trail[1].kind = "remove_marker"
    /\ trail[2].kind = "add_marker"
    /\ trail[2].m = SwitchStart(8)
    /\ result = Returned(SwitchStart(8))

----------------------------------------------------------------------------
\* SsbLabel: markers and needs_to_be_printed

\* numbers of outgoing edges of a vertex
OutEdgeCounts == {0, 1, 4}

\* a vertex: its attribute names, its 'op' attribute and its outgoing edges
Vertex(attributes, op, out_edges) ==
    [attributes |-> attributes, op |-> op, out_edges |-> out_edges]

\* a jump node as vertex payload, holding the markers ms
PayloadJump(ms) ==
    [SsbLabelJump(SsbOperation(10, "Branch", ListParams(<<>>)), 0) EXCEPT !.markers = ms]

\* the vertices of the graphs: without 'op' attribute, with a plain operation,
\* with a jump node without marker, and the switch starts
Vertices ==
    {Vertex({}, None, 1),
     Vertex({"op"}, [kind |-> "op", op |-> SsbOperation(20, OP_RETURN, ListParams(<<>>))], 1),
     Vertex({"op"}, PayloadJump(<<>>), 4),
     Vertex({"op"}, PayloadJump(<<MultiSwitchStart(7, <<>>)>>), 4),
     Vertex({"op"}, PayloadJump(<<SwitchStart(8)>>), 1)}
    \cup {Vertex({"op"}, PayloadJump(<<SwitchStart(7)>>), n) : n \in OutEdgeCounts}

Graphs == SeqsUpTo(Vertices, MaxVertices)

\* as HoldsSwitchStart, without comparing the switch_id
HoldsAnySwitchStart(op, switch_id) ==
    \E i \in 1 .. Len(op.markers) : IsInstance(op.markers[i], "SwitchStart")

\* as HoldsSwitchStart, comparing the exact class
HoldsExactSwitchStart(op, switch_id) ==
    \E i \in 1 .. Len(op.markers) :
        op.markers[i].type = "SwitchStart" /\ op.markers[i].switch_id = switch_id

\* some m in op.markers has isinstance(m, SwitchStart) and m.switch_id == switch_id
HoldsSwitchStart(op, switch_id) ==
    \E i \in 1 .. Len(op.markers) :
        IsInstance(op.markers[i], "SwitchStart") /\ op.markers[i].switch_id = switch_id

\* SsbLabel._find_switch_start_vertex(graph, switch_id): the index of the first
\* vertex with an 'op' that is an SsbLabelJump holding the marker, or 0 for None
FindSwitchStartVertex(g, switch_id) ==
    LET hits == {v \in 1 .. Len(g) :
                    /\ "op" \in g[v].attributes
                    /\ g[v].op.kind = "jump"
                    /\ HoldsSwitchStart(g[v].op, switch_id)}
    IN  IF hits = {} THEN 0 ELSE CHOOSE v \in hits : \A w \in hits : v <= w

\* as NeedsPrinting, with >= for >
NeedsPrintingInclusive(number_in_vs, max_in_vs) == number_in_vs >= max_in_vs

\* number_in_vs > max_in_vs
NeedsPrinting(number_in_vs, max_in_vs) == number_in_vs > max_in_vs

\* the loop over self.markers from position i on, with max_in_vs so far
RECURSIVE MarkerLoop(_, _, _, _, _)
MarkerLoop(markers, i, max_in_vs, number_in_vs, g) ==
    IF i > Len(markers)
    THEN Returned(NeedsPrinting(number_in_vs, max_in_vs))
    ELSE LET m == markers[i]
             after_if == IF IsInstance(m, "IfEnd") THEN max_in_vs + 1 ELSE max_in_vs
         IN  IF IsInstance(m, "SwitchEnd")
             THEN LET start == FindSwitchStartVertex(g, m.switch_id)
                  IN  IF start = 0
                      THEN [kind |-> "error", error |-> "ValueError",
                            switch_id |-> m.switch_id]
                      ELSE MarkerLoop(markers, i + 1, after_if + g[start].out_edges - 1,
                                      number_in_vs, g)
             ELSE MarkerLoop(markers, i + 1, after_if, number_in_vs, g)

\* SsbLabel.needs_to_be_printed(number_in_vs, graph) on label 1
NeedsToBePrinted(number_in_vs) ==
    /\ call' = [kind |-> "needs_to_be_printed", number_in_vs |-> number_in_vs]
    /\ result' = MarkerLoop(labels[1].markers, 1, 1, number_in_vs, graph)
    /\ UNCHANGED <<resolver_vars, node, graph, trail, multi_if_vars, handler_vars,
                   runs_vars>>

\* SsbLabel.add_marker(m) on label 1
LabelAddMarker(m) ==
    /\ Len(labels[1].markers) < MaxLabelMarkers
    /\ labels' = [labels EXCEPT ![1].markers = Append(@, m)]
    /\ UNCHANGED <<known_labels, issued, first_seen, creator, foreign_reuse,
                   call, result, node, graph, trail, multi_if_vars, handler_vars,
                   runs_vars>>

\* one label without markers and any graph
InitPrint ==
    /\ known_labels = <<>>
    /\ labels = <<SsbLabel(0, 0)>>
    /\ call = [kind |-> "none"]
    /\ result = [kind |-> "none"]
    /\ issued = {}
    /\ first_seen = <<>>
    /\ creator = <<>>
    /\ foreign_reuse = {}
    /\ NoNode
    /\ graph \in Graphs
    /\ NoMultiIf
    /\ NoHandler
    /\ NoRuns

NextPrint ==
    \/ /\ call.kind = "none"
       /\ \E m \in LabelMarkers : LabelAddMarker(m)
    \/ /\ call.kind = "none"
       /\ \E number_in_vs \in 0 .. MaxNumberInVs : NeedsToBePrinted(number_in_vs)
    \/ NextOp

SpecPrint == InitPrint /\ [][NextPrint]_vars

\* the markers of the label of class cls
MarkersOf(cls) == {i \in 1 .. Len(labels[1].markers) : labels[1].markers[i].type = cls}

\* the vertices whose payload is a JumpNode holding a SwitchStart or
\* MultiSwitchStart marker with the switch_id
Matching(switch_id) ==
    {v \in 1 .. Len(graph) :
        /\ "op" \in graph[v].attributes
        /\ graph[v].op.kind = "jump"
        /\ \E i \in 1 .. Len(graph[v].op.markers) :
              /\ graph[v].op.markers[i].type \in {"SwitchStart", "MultiSwitchStart"}
              /\ graph[v].op.markers[i].switch_id = switch_id}

\* the first of them in the graph's vertex order
FirstMatching(switch_id) == CHOOSE v \in Matching(switch_id) : \A w \in Matching(switch_id) : v <= w

\* the sum of f over the finite set S
RECURSIVE Sum(_, _)
Sum(f, S) == IF S = {} THEN 0 ELSE LET x == CHOOSE y \in S : TRUE IN f[x] + Sum(f, S \ {x})

\* C7: without a SwitchEnd marker the verdict is number_in_vs > 1 + (number of
\* IfEnd markers); ForeverStart, ForeverEnd and SwitchFalltrough do not count;
\* with no markers 1 is not flagged and 2 is.
C7_IfEndThreshold ==
    (call.kind = "needs_to_be_printed" /\ MarkersOf("SwitchEnd") = {})
    => /\ result = Returned(call.number_in_vs > 1 + Cardinality(MarkersOf("IfEnd")))
       /\ (labels[1].markers = <<>> /\ call.number_in_vs = 1) => result = Returned(FALSE)
       /\ (labels[1].markers = <<>> /\ call.number_in_vs = 2) => result = Returned(TRUE)

\* two IfEnd markers: three incoming edges are not flagged
C7_Witness ==
    /\ call.kind = "needs_to_be_printed"
    /\ labels[1].markers = <<IfEnd(7), IfEnd(7)>>
    /\ call.number_in_vs = 3
    /\ result = Returned(FALSE)

\* C8: when every SwitchEnd marker has a matching vertex, each adds (outgoing
\* edges of its first matching vertex) - 1 to the threshold; a label marked only
\* SwitchEnd(7) whose switch start has 4 outgoing edges is flagged iff
\* number_in_vs > 4.
C8_SwitchEndThreshold ==
    (/\ call.kind = "needs_to_be_printed"
     /\ \A i \in MarkersOf("SwitchEnd") : Matching(labels[1].markers[i].switch_id) # {})
    => LET ms == labels[1].markers
           extra == [i \in MarkersOf("SwitchEnd") |->
                        graph[FirstMatching(ms[i].switch_id)].out_edges - 1]
           threshold == 1 + Cardinality(MarkersOf("IfEnd"))
                          + Sum(extra, MarkersOf("SwitchEnd"))
       IN  /\ result = Returned(call.number_in_vs > threshold)
           /\ (ms = <<SwitchEnd(7)>> /\ graph[FirstMatching(7)].out_edges = 4)
                 => result = Returned(call.number_in_vs > 4)

\* SwitchEnd(7) alone, its MultiSwitchStart(7) vertex with 4 outgoing edges
\* behind a vertex that does not match: 5 incoming edges are flagged
C8_Witness ==
    /\ call.kind = "needs_to_be_printed"
    /\ labels[1].markers = <<SwitchEnd(7)>>
    /\ Len(graph) = 2
    /\ Matching(7) = {2}
    /\ graph[2].op.markers[1].type = "MultiSwitchStart"
    /\ graph[2].out_edges = 4
    /\ call.number_in_vs = 5
    /\ result = Returned(TRUE)

\* C9: a SwitchEnd marker without matching vertex in the graph makes
\* needs_to_be_printed fail with the ValueError, for every number_in_vs and
\* whatever other markers the label carries.
C9_MissingSwitchStart ==
    (/\ call.kind = "needs_to_be_printed"
     /\ \E i \in MarkersOf("SwitchEnd") : Matching(labels[1].markers[i].switch_id) = {})
    => (result.kind = "error" /\ result.error = "ValueError")

\* SwitchEnd(7) is matched, SwitchEnd(8) behind it is not
C9_Witness ==
    /\ call.kind = "needs_to_be_printed"
    /\ labels[1].markers = <<SwitchEnd(7), SwitchEnd(8)>>
    /\ Matching(7) # {}
    /\ Matching(8) = {}
    /\ Len(graph) = 2
    /\ result.kind = "error"

----------------------------------------------------------------------------
\* MultiIfStart: the accumulator of merged ifs

\* the original if operations merged into a MultiIfStart
IfOps == {SsbOperation(off, "Branch", ListParams(<<1, 0>>)) : off \in OpOffsets}

\* as ListAppend, inserting at the front
ListPrepend(list, x) == <<x>> \o list

\* list.append(x)
ListAppend(list, x) == Append(list, x)

\* MultiIfStart.add_if(ssb_if, is_not)
AddIf(ssb_if, is_not) ==
    /\ Len(if_history.added) < MaxIfs
    /\ multi_if' = [multi_if EXCEPT
                       !.original_ssb_ifs_ops = ListAppend(@, ssb_if),
                       !.original_ssb_ifs_is_not = ListAppend(@, is_not)]
    /\ if_history' = [if_history EXCEPT !.added = Append(@, <<ssb_if, is_not>>)]
    /\ UNCHANGED <<resolver_vars, call, result, node, graph, trail, handler_vars, runs_vars>>

\* a MultiIfStart built from any two short lists
InitMultiIf ==
    /\ NoResolver
    /\ labels = <<>>
    /\ call = [kind |-> "none"]
    /\ result = [kind |-> "none"]
    /\ NoNode
    /\ NoGraph
    /\ \E if_id \in MarkerIds, start_ifs \in SeqsUpTo(IfOps, 1),
          ifs_are_not \in SeqsUpTo(BOOLEAN, 1) :
          /\ multi_if = MultiIfStart(if_id, start_ifs, ifs_are_not)
          /\ if_history = [kind |-> "multi_if", ops |-> start_ifs, nots |-> ifs_are_not,
                           added |-> <<>>]
    /\ NoHandler
    /\ NoRuns

NextMultiIf == \E ssb_if \in IfOps, is_not \in BOOLEAN : AddIf(ssb_if, is_not)

SpecMultiIf == InitMultiIf /\ [][NextMultiIf]_vars

\* C12: the accumulator of a MultiIfStart holds the entries it was built with
\* followed by the added (operation, negated) pairs in call order, both lists
\* one longer per call and index-aligned when they were at the start; adding
\* negated = false, true, false to an empty one yields those three entries.
C12_AddIfOrder ==
    LET added == if_history.added
        ops == multi_if.original_ssb_ifs_ops
        nots == multi_if.original_ssb_ifs_is_not
    IN  /\ Len(ops) = Len(if_history.ops) + Len(added)
        /\ Len(nots) = Len(if_history.nots) + Len(added)
        /\ \A i \in 1 .. Len(if_history.ops) : ops[i] = if_history.ops[i]
        /\ \A i \in 1 .. Len(if_history.nots) : nots[i] = if_history.nots[i]
        /\ \A i \in 1 .. Len(added) :
              /\ ops[Len(if_history.ops) + i] = added[i][1]
              /\ nots[Len(if_history.nots) + i] = added[i][2]
        /\ Len(if_history.ops) = Len(if_history.nots) => Len(ops) = Len(nots)
        /\ (/\ if_history.ops = <<>>
            /\ if_history.nots = <<>>
            /\ Len(added) = 3
            /\ <<added[1][2], added[2][2], added[3][2]>> = <<FALSE, TRUE, FALSE>>)
           => (nots = <<FALSE, TRUE, FALSE>> /\ ops = <<added[1][1], added[2][1], added[3][1]>>)

\* three ifs, negated = false, true, false, merged into an empty MultiIfStart
C12_Witness ==
    /\ multi_if.type = "MultiIfStart"
    /\ if_history.ops = <<>>
    /\ if_history.nots = <<>>
    /\ Len(if_history.added) = 3
    /\ multi_if.original_ssb_ifs_is_not = <<FALSE, TRUE, FALSE>>
    /\ multi_if.original_ssb_ifs_ops[1] # multi_if.original_ssb_ifs_ops[2]

----------------------------------------------------------------------------
\* AssignmentAdventureLogCompileHandler

OPS_FLAG__SET_ADVENTURE_LOG == "flag_SetAdventureLog"

\* an integer SsbOpParam
IntParam(v) == [kind |-> "int", value |-> v]

LogValues == {IntParam(v) : v \in 0 .. MaxLogValue}

\* a handler that produces an integer-like value
IntegerLikeCompileHandler(value) == [type |-> "IntegerLikeCompileHandler", value |-> value]

\* what add() may be handed: producers of each value, and objects of other types
AddObjects ==
    {IntegerLikeCompileHandler(v) : v \in LogValues}
        \cup {[type |-> t, value |-> IntParam(v)] :
                 t \in {"int", "str", "NoneType", "AssignmentAdventureLogCompileHandler"},
                 v \in {0, 1}}

\* IntegerLikeCompileHandler.collect()
CollectIntegerLike(obj) == obj.value

\* self._generate_operation(op_code, params)
GenerateOperation(op_code, params) == SsbOperation(0, op_code, ListParams(params))

SsbCompilerError == [kind |-> "error", error |-> "SsbCompilerError"]

\* self._raise_add_error(obj)
RaiseAddError(obj) == SsbCompilerError

\* as ValueMissing, testing the value's truth instead of its identity with None
ValueMissingFalsy(value) == value = None \/ value = IntParam(0)

\* self.value is None
ValueMissing(value) == value = None

\* AssignmentAdventureLogCompileHandler.collect()
Collect ==
    /\ call' = [kind |-> "collect"]
    /\ result' = IF ValueMissing(handler.value)
                 THEN SsbCompilerError
                 ELSE Returned(<<GenerateOperation(OPS_FLAG__SET_ADVENTURE_LOG,
                                                   <<handler.value>>)>>)
    /\ UNCHANGED <<resolver_vars, node, graph, trail, multi_if_vars, handler_vars,
                   runs_vars>>

\* AssignmentAdventureLogCompileHandler.add(obj)
Add(obj) ==
    /\ call' = [kind |-> "add", obj |-> obj]
    /\ IF obj.type = "IntegerLikeCompileHandler"
       THEN /\ handler' = [handler EXCEPT !.value = CollectIntegerLike(obj)]
            /\ supplied' = CollectIntegerLike(obj)
            /\ result' = Returned(None)
       ELSE /\ result' = RaiseAddError(obj)
            /\ UNCHANGED handler_vars
    /\ UNCHANGED <<resolver_vars, node, graph, trail, multi_if_vars, runs_vars>>

\* a handler just constructed
InitAdventureLog ==
    /\ NoResolver
    /\ labels = <<>>
    /\ call = [kind |-> "none"]
    /\ result = [kind |-> "none"]
    /\ NoNode
    /\ NoGraph
    /\ NoMultiIf
    /\ handler = [kind |-> "AssignmentAdventureLogCompileHandler", value |-> None]
    /\ supplied = None
    /\ NoRuns

NextAdventureLog ==
    \/ /\ call.kind = "none"
       /\ \E obj \in AddObjects : Add(obj)
    \/ /\ call.kind = "none"
       /\ Collect
    \/ NextOp

SpecAdventureLog == InitAdventureLog /\ [][NextAdventureLog]_vars

\* C13: collect with no value supplied fails with a compilation error and
\* produces no operation; once add has been given an integer-like producer,
\* collect returns exactly one operation, with the set-adventure-log opcode
\* and the latest value so supplied as its only parameter; add given anything
\* else fails and leaves the stored value as it was.
C13_AdventureLog ==
    /\ []((call.kind = "collect" /\ supplied = None) => result = SsbCompilerError)
    /\ []((call.kind = "collect" /\ supplied # None)
            => /\ result.kind = "return"
               /\ Len(result.value) = 1
               /\ result.value[1].op_code = OPS_FLAG__SET_ADVENTURE_LOG
               /\ ParamList(result.value[1].params) = <<supplied>>)
    /\ []((call.kind = "add" /\ call.obj.type = "IntegerLikeCompileHandler")
            => (result = Returned(None) /\ supplied = call.obj.value))
    /\ [][(call'.kind = "add" /\ call.kind = "none"
              /\ call'.obj.type # "IntegerLikeCompileHandler")
            => (result'.kind = "error" /\ handler' = handler /\ supplied' = supplied)]_vars
    /\ [][call'.kind = "collect" => handler' = handler]_vars

\* the value 0 was supplied and collect returned the operation carrying it
C13_Witness ==
    /\ call.kind = "collect"
    /\ supplied = IntParam(0)
    /\ handler.value = IntParam(0)
    /\ result = Returned(<<SsbOperation(0, "flag_SetAdventureLog", ListParams(<<IntParam(0)>>))>>)

----------------------------------------------------------------------------
\* Two runs: the same sequence of calls fed to two known_labels maps

\* the calls of the common sequence
RunCalls ==
    {[op |-> SsbOperation(10, OP_JUMP, ListParams(<<t>>)), routine_id |-> r] :
        t \in Offsets, r \in RoutineIds}
        \cup {[op |-> SsbOperation(10, OP_RETURN, ListParams(<<>>)), routine_id |-> 0]}

\* the caller appends a call to the common sequence
Feed(c) ==
    /\ Len(stream) < MaxStream
    /\ stream' = Append(stream, c)
    /\ UNCHANGED <<resolver_vars, call, result, node, graph, trail, multi_if_vars,
                   handler_vars, runs>>

\* run r makes its next call: process_op_for_jump(op, runs[r].known_labels, routine_id)
Step(r) ==
    /\ runs[r].pos < Len(stream)
    /\ LET c == stream[runs[r].pos + 1]
           res == Resolve(c.op, runs[r].known_labels, labels, c.routine_id)
       IN  /\ runs' = [runs EXCEPT ![r] = [known_labels |-> res.known_labels,
                                           pos |-> runs[r].pos + 1]]
           /\ labels' = res.labels
    /\ UNCHANGED <<known_labels, issued, first_seen, creator, foreign_reuse, call, result,
                   node, graph, trail, multi_if_vars, handler_vars, stream>>

\* two maps, both empty, and no call fed yet
InitRuns ==
    /\ NoResolver
    /\ labels = <<>>
    /\ call = [kind |-> "none"]
    /\ result = [kind |-> "none"]
    /\ NoNode
    /\ NoGraph
    /\ NoMultiIf
    /\ NoHandler
    /\ runs = [r \in 1 .. 2 |-> [known_labels |-> <<>>, pos |-> 0]]
    /\ stream = <<>>

NextRuns ==
    \/ \E c \in RunCalls : Feed(c)
    \/ \E r \in 1 .. 2 : Step(r)

SpecRuns == InitRuns /\ [][NextRuns]_vars

\* offset -> (id, routine_id, flag) of run r
Assoc(r) ==
    [o \in DOMAIN runs[r].known_labels |->
        [id |-> labels[runs[r].known_labels[o]].id,
         routine_id |-> labels[runs[r].known_labels[o]].routine_id,
         flag |-> labels[runs[r].known_labels[o]].referenced_from_other_routine]]

\* the Labels of run r
LabelsOf(r) == {runs[r].known_labels[o] : o \in DOMAIN runs[r].known_labels}

\* C17: two runs that have consumed the same sequence of calls, each on its
\* own initially empty map, associate the same offsets with the same (id,
\* routine_id, flag); the ids of each run start at 0; the runs share no Label
\* and a call of one run changes neither the other run's map nor its Labels.
C17_RunsIndependent ==
    /\ [](runs[1].pos = runs[2].pos => Assoc(1) = Assoc(2))
    /\ [](\A r \in 1 .. 2 :
            LabelsOf(r) # {} => 0 \in {labels[l].id : l \in LabelsOf(r)})
    /\ [](LabelsOf(1) \cap LabelsOf(2) = {})
    /\ [][\A r \in 1 .. 2 :
            runs'[r].pos # runs[r].pos
                => /\ runs'[3 - r] = runs[3 - r]
                   /\ \A l \in LabelsOf(3 - r) : labels'[l] = labels[l]]_vars

\* both runs have made the same three calls, in interleaved order, each
\* creating two Labels and flagging one of them
C17_Witness ==
    /\ Len(stream) = 3
    /\ runs[1].pos = 3
    /\ runs[2].pos = 3
    /\ Cardinality(DOMAIN runs[1].known_labels) = 2
    /\ \E o \in DOMAIN runs[2].known_labels :
          /\ Assoc(2)[o].flag
          /\ Assoc(1)[o].flag
          /\ labels[runs[2].known_labels[o]].id = 0
    /\ \E l1 \in LabelsOf(1), l2 \in LabelsOf(2) : l2 < l1
    /\ \E l1 \in LabelsOf(1), l2 \in LabelsOf(2) : l1 < l2

====
